---- MODULE Spec2Model ----
(***************************************************************************)
(* Kirazee dashboard, frontend authorization core.                         *)
(*                                                                         *)
(* The model follows AuthContext.tsx (AuthProvider: the auth state, the    *)
(* restore effect, login, logout, hasPermission and the ROLE_PERMISSIONS   *)
(* table), ProtectedRoute.tsx, the route table of App.tsx, the 401 branch  *)
(* of the response interceptor of apiClient.ts and ErrorBoundary.tsx,      *)
(* LoginPage.tsx (its form state and handleSubmit), DashboardHome.tsx with *)
(* MetricCard.tsx, and the components that ask for manage_users.           *)
(*                                                                         *)
(* A JavaScript value that may be null is a sequence of length at most     *)
(* one: << >> is null and << v >> is the value v.                          *)
(***************************************************************************)
EXTENDS Integers, Sequences, FiniteSets, TLC

VARIABLES
    user,              \* useState<User | null>            AuthContext.tsx:66
    token,             \* useState<string | null>          AuthContext.tsx:67
    isAuthenticated,   \* useState<boolean>                AuthContext.tsx:68
    localStorage,      \* window.localStorage: key -> string, absent keys not in DOMAIN
    ROLE_PERMISSIONS,  \* the module-level table, a mutable JS object of arrays
    location,          \* window.location.pathname / the router's location
    phase,             \* "constructed" (document loaded, effect not yet run),
                       \* "mounted" (AuthProvider mounted), "crashed" (ErrorBoundary fallback)
    view,              \* what the route table renders for the current location
    inflight,          \* number of requests awaiting their response, per kind
    isLoading,         \* useState(false) of the mounted LoginPage   LoginPage.tsx:11
    error,             \* useState<string | null>(null) of it        LoginPage.tsx:10
    errorHandlers,     \* const errorHandlers: ErrorHandler[]        apiClient.ts:15
    issued,            \* the unregister functions returned to callers that keep them
    errors,            \* useState of the mounted ErrorNotification  part_008:10
    autoHideDuration,  \* its prop, or null while no ErrorNotification is mounted
    nextId,            \* how many ids ErrorNotification has given to errors
    ret                \* the operation of the last step and what it gave its caller

vars == << user, token, isAuthenticated, localStorage, ROLE_PERMISSIONS,
           location, phase, view, inflight, isLoading, error, errorHandlers, issued,
           errors, autoHideDuration, nextId, ret >>

authState == << user, token, isAuthenticated >>

\* the state of LoginPage; while no LoginPage is mounted it is the initial state
\* the next one will be mounted with
loginPage == << isLoading, error >>

\* the handler registry of apiClient and the state of ErrorNotification
errorReporting == << errorHandlers, issued, errors, autoHideDuration, nextId >>

-----------------------------------------------------------------------------
(* Bounds *)

\* requests of one kind that may be awaiting a response at the same time
MaxInFlight == 1

\* longest requiredPermissions list of called permissions the guard is asked about
MaxRequired == 2

\* longest errorHandlers array
MaxHandlers == 3

\* unregister functions handed to callers other than React, per document
MaxRegistrations == 2

\* errors ErrorNotification is given an id for, per document
MaxErrors == 2

-----------------------------------------------------------------------------
(* Nullable values *)

Null == << >>

Some(v) == << v >>

\* JavaScript truthiness of a nullable string: null and "" are falsy
TruthyString(m) == m # Null /\ m[1] # ""

\* JavaScript truthiness of a nullable object
TruthyObject(m) == m # Null

-----------------------------------------------------------------------------
(* Types: enum UserRole, enum Permission, interface User *)

UserRole ==
    { "super_admin", "manager", "support", "kyc_associate", "ca_finance", "developer" }

Permission ==
    { "view_revenue", "view_orders", "view_businesses", "view_customers",
      "view_delivery_partners", "view_kyc_queue", "view_system_logs",
      "view_api_analytics", "manage_users", "verify_kyc", "manage_businesses",
      "manage_orders", "view_financial_reports", "manage_notifications" }

\* A role string that is no member of the enum.  "role: UserRole" is a compile-time
\* annotation only: JSON.parse(storedUser) as User and response.data are unchecked casts.
UnlistedRole == "auditor"

RoleValues == UserRole \cup { UnlistedRole }

Usernames == { "asha" }

Users == [ username : Usernames, role : RoleValues ]

Tokens == { "jwt1", "jwt2" }

\* the permissions the model's consumers ask hasPermission about
CalledPermissions == { "view_revenue", "manage_users", "view_kyc_queue", "view_orders" }

-----------------------------------------------------------------------------
(* ROLE_PERMISSIONS *)

RolePermissionTableNoManageUsers ==
    [ r \in UserRole |->
        CASE r = "super_admin" ->
               << "view_revenue", "view_orders", "view_businesses", "view_customers",
                  "view_delivery_partners", "view_kyc_queue", "view_system_logs",
                  "view_api_analytics", "verify_kyc", "manage_businesses",
                  "manage_orders", "view_financial_reports", "manage_notifications" >>
          [] r = "manager" ->
               << "view_orders", "view_businesses", "view_delivery_partners",
                  "manage_businesses", "manage_orders" >>
          [] r = "support" ->
               << "view_orders", "view_customers", "manage_notifications" >>
          [] r = "kyc_associate" -> << "view_kyc_queue", "verify_kyc" >>
          [] r = "ca_finance" -> << "view_revenue", "view_financial_reports" >>
          [] r = "developer" ->
               << "view_system_logs", "view_api_analytics", "view_delivery_partners" >> ]

RolePermissionTableKycRevenue ==
    [ r \in UserRole |->
        CASE r = "super_admin" ->
               << "view_revenue", "view_orders", "view_businesses", "view_customers",
                  "view_delivery_partners", "view_kyc_queue", "view_system_logs",
                  "view_api_analytics", "manage_users", "verify_kyc", "manage_businesses",
                  "manage_orders", "view_financial_reports", "manage_notifications" >>
          [] r = "manager" ->
               << "view_orders", "view_businesses", "view_delivery_partners",
                  "manage_businesses", "manage_orders" >>
          [] r = "support" ->
               << "view_orders", "view_customers", "manage_notifications" >>
          [] r = "kyc_associate" -> << "view_kyc_queue", "verify_kyc", "view_revenue" >>
          [] r = "ca_finance" -> << "view_revenue", "view_financial_reports" >>
          [] r = "developer" ->
               << "view_system_logs", "view_api_analytics", "view_delivery_partners" >> ]

\* the table with manage_users given to managers as well
RolePermissionTableManagersManageUsers ==
    [ r \in UserRole |->
        CASE r = "super_admin" ->
               << "view_revenue", "view_orders", "view_businesses", "view_customers",
                  "view_delivery_partners", "view_kyc_queue", "view_system_logs",
                  "view_api_analytics", "manage_users", "verify_kyc", "manage_businesses",
                  "manage_orders", "view_financial_reports", "manage_notifications" >>
          [] r = "manager" ->
               << "view_orders", "view_businesses", "view_delivery_partners",
                  "manage_businesses", "manage_orders", "manage_users" >>
          [] r = "support" ->
               << "view_orders", "view_customers", "manage_notifications" >>
          [] r = "kyc_associate" -> << "view_kyc_queue", "verify_kyc" >>
          [] r = "ca_finance" -> << "view_revenue", "view_financial_reports" >>
          [] r = "developer" ->
               << "view_system_logs", "view_api_analytics", "view_delivery_partners" >> ]

RolePermissionTable ==
    [ r \in UserRole |->
        CASE r = "super_admin" ->
               << "view_revenue", "view_orders", "view_businesses", "view_customers",
                  "view_delivery_partners", "view_kyc_queue", "view_system_logs",
                  "view_api_analytics", "manage_users", "verify_kyc", "manage_businesses",
                  "manage_orders", "view_financial_reports", "manage_notifications" >>
          [] r = "manager" ->
               << "view_orders", "view_businesses", "view_delivery_partners",
                  "manage_businesses", "manage_orders" >>
          [] r = "support" ->
               << "view_orders", "view_customers", "manage_notifications" >>
          [] r = "kyc_associate" -> << "view_kyc_queue", "verify_kyc" >>
          [] r = "ca_finance" -> << "view_revenue", "view_financial_reports" >>
          [] r = "developer" ->
               << "view_system_logs", "view_api_analytics", "view_delivery_partners" >> ]

\* Array.prototype.includes
includes(arr, x) == \E i \in 1..Len(arr) : arr[i] = x

-----------------------------------------------------------------------------
(* Outcomes of a call *)

Returned(v) == [ kind |-> "return", value |-> v ]

Thrown(e) == [ kind |-> "throw", error |-> e ]

-----------------------------------------------------------------------------
(* JSON.stringify / JSON.parse on the values the model stores *)

JSONStringify(m) ==
    IF m = Null
    THEN "null"
    ELSE "{\"username\":\"" \o m[1].username \o "\",\"role\":\"" \o m[1].role \o "\"}"

\* a stored string that is no JSON text
NotJSON == "{username:"

JSONParse(s) ==
    IF s = "null"
    THEN Returned(Null)
    ELSE IF \E u \in Users : JSONStringify(Some(u)) = s
         THEN Returned(Some(CHOOSE u \in Users : JSONStringify(Some(u)) = s))
         ELSE Thrown("SyntaxError")

-----------------------------------------------------------------------------
(* localStorage *)

getItem(store, key) == IF key \in DOMAIN store THEN Some(store[key]) ELSE Null

setItem(store, key, value) ==
    [ k \in DOMAIN store \cup { key } |-> IF k = key THEN value ELSE store[k] ]

removeItem(store, key) == [ k \in DOMAIN store \ { key } |-> store[k] ]

-----------------------------------------------------------------------------
(* AuthProvider.hasPermission *)

\* the check with indexOf(permission) > 0 in place of includes(permission)
hasPermissionIndexOf(u, permission) ==
    IF ~TruthyObject(u)
    THEN Returned(FALSE)
    ELSE IF u[1].role \notin DOMAIN ROLE_PERMISSIONS
         THEN Thrown("TypeError")
         ELSE Returned(\E i \in 2..Len(ROLE_PERMISSIONS[u[1].role]) :
                           ROLE_PERMISSIONS[u[1].role][i] = permission)

\* the check with a default role in place of the early return for a null user
hasPermissionDefaultRole(u, permission) ==
    LET role == IF TruthyObject(u) THEN u[1].role ELSE "support" IN
    IF role \notin DOMAIN ROLE_PERMISSIONS
    THEN Thrown("TypeError")
    ELSE Returned(includes(ROLE_PERMISSIONS[role], permission))

\* ROLE_PERMISSIONS[user.role] is undefined for a role that is no key of the table,
\* and undefined.includes(...) throws a TypeError.
hasPermission(u, permission) ==
    IF ~TruthyObject(u)
    THEN Returned(FALSE)
    ELSE IF u[1].role \notin DOMAIN ROLE_PERMISSIONS
         THEN Thrown("TypeError")
         ELSE Returned(includes(ROLE_PERMISSIONS[u[1].role], permission))

-----------------------------------------------------------------------------
(* ProtectedRoute *)

\* requiredPermissions.every((permission) => hasPermission(permission)):
\* left to right, stops at the first false, a throw of the callback propagates
RECURSIVE every(_, _)
every(u, required) ==
    IF required = << >>
    THEN Returned(TRUE)
    ELSE LET r == hasPermission(u, Head(required)) IN
         IF r.kind = "throw" THEN r
         ELSE IF ~r.value THEN Returned(FALSE)
         ELSE every(u, Tail(required))

Navigate(to) == [ kind |-> "Navigate", to |-> to ]

AccessDenied == [ kind |-> "AccessDenied" ]

Children == [ kind |-> "children" ]

\* the guard with the authentication test skipped when no permission is required
ProtectedRouteOpenWhenEmpty(auth, u, requiredPermissions, redirectTo) ==
    IF Len(requiredPermissions) > 0
    THEN IF ~auth
         THEN Navigate(redirectTo)
         ELSE LET hasAllPermissions == every(u, requiredPermissions) IN
              IF hasAllPermissions.kind = "throw" THEN hasAllPermissions
              ELSE IF ~hasAllPermissions.value THEN AccessDenied
              ELSE Children
    ELSE Children

\* auth is isAuthenticated and u is the user behind hasPermission, both from useAuth()
ProtectedRoute(auth, u, requiredPermissions, redirectTo) ==
    IF ~auth
    THEN Navigate(redirectTo)
    ELSE IF Len(requiredPermissions) > 0
         THEN LET hasAllPermissions == every(u, requiredPermissions) IN
              IF hasAllPermissions.kind = "throw" THEN hasAllPermissions
              ELSE IF ~hasAllPermissions.value THEN AccessDenied
              ELSE Children
         ELSE Children

-----------------------------------------------------------------------------
(* NavigationMenu and the route table of App *)

MENU_ITEMS ==
    << [ path |-> "/dashboard", permissions |-> << >> ],
       [ path |-> "/manager-dashboard", permissions |-> << "manage_businesses" >> ],
       [ path |-> "/user-management", permissions |-> << "manage_users" >> ],
       [ path |-> "/revenue-reports",
         permissions |-> << "view_revenue", "view_financial_reports" >> ],
       [ path |-> "/order-management", permissions |-> << "view_orders", "manage_orders" >> ],
       [ path |-> "/kyc-verification", permissions |-> << "view_kyc_queue", "verify_kyc" >> ],
       [ path |-> "/system-logs",
         permissions |-> << "view_system_logs", "view_api_analytics" >> ],
       [ path |-> "/businesses", permissions |-> << "manage_businesses" >> ],
       [ path |-> "/delivery-partners", permissions |-> << "view_delivery_partners" >> ],
       [ path |-> "/customers", permissions |-> << "view_customers" >> ],
       [ path |-> "/notifications", permissions |-> << "manage_notifications" >> ] >>

\* item.permissions.some((permission) => hasPermission(permission))
RECURSIVE some(_, _)
some(u, permissions) ==
    IF permissions = << >>
    THEN Returned(FALSE)
    ELSE LET r == hasPermission(u, Head(permissions)) IN
         IF r.kind = "throw" THEN r
         ELSE IF r.value THEN Returned(TRUE)
         ELSE some(u, Tail(permissions))

\* MENU_ITEMS.filter(...): the paths of the visible items, or the throw of the callback
NavigationMenu(u) ==
    LET shown(item) == IF Len(item.permissions) = 0
                       THEN Returned(TRUE)
                       ELSE some(u, item.permissions) IN
    IF \E i \in 1..Len(MENU_ITEMS) : shown(MENU_ITEMS[i]).kind = "throw"
    THEN Thrown("TypeError")
    ELSE Returned({ MENU_ITEMS[i].path :
                      i \in { j \in 1..Len(MENU_ITEMS) : shown(MENU_ITEMS[j]).value } })

\* <Route path=... element={<ProtectedRoute requiredPermissions={...}>}>
RouteTable ==
    [ path \in { "/dashboard", "/revenue-reports", "/order-management",
                 "/kyc-verification", "/system-logs", "/user-management", "/businesses",
                 "/delivery-partners", "/customers", "/notifications" } |->
        CASE path = "/dashboard" -> << >>
          [] path = "/revenue-reports" -> << "view_revenue" >>
          [] path = "/order-management" -> << "view_orders" >>
          [] path = "/kyc-verification" -> << "view_kyc_queue" >>
          [] path = "/system-logs" -> << "view_system_logs" >>
          [] path = "/user-management" -> << "manage_users" >>
          [] path = "/businesses" -> << "manage_businesses" >>
          [] path = "/delivery-partners" -> << "view_delivery_partners" >>
          [] path = "/customers" -> << "view_customers" >>
          [] path = "/notifications" -> << "manage_notifications" >> ]

\* the addresses the model enters or links to: the login page, the index route, four
\* of the protected routes and the manager dashboard LoginPage navigates to
Urls ==
    { "/login", "/", "/dashboard", "/user-management", "/revenue-reports",
      "/manager-dashboard" }

\* What <Routes> shows at loc for the auth state (auth, u), and where the router ends:
\* a <Navigate> replaces the location and the routes are matched again.
Render(loc, auth, u) ==
    LET at == IF loc = "/" THEN "/dashboard" ELSE loc IN
    IF at = "/login"
    THEN [ location |-> at, view |-> "LoginPage" ]
    ELSE IF at \notin DOMAIN RouteTable
         THEN [ location |-> at, view |-> "blank" ]
         ELSE LET r == ProtectedRoute(auth, u, RouteTable[at], "/login") IN
              CASE r.kind = "Navigate" -> [ location |-> r.to, view |-> "LoginPage" ]
                [] r.kind = "throw" -> [ location |-> at, view |-> "ErrorBoundary" ]
                [] r.kind = "AccessDenied" -> [ location |-> at, view |-> "AccessDenied" ]
                [] r.kind = "children" ->
                     IF NavigationMenu(u).kind = "throw"
                     THEN [ location |-> at, view |-> "ErrorBoundary" ]
                     ELSE [ location |-> at, view |-> "page" ]

-----------------------------------------------------------------------------
(* Requests and the response interceptor of apiClient *)

RequestKinds == { "login", "logout", "data" }

NoRequests == [ k \in RequestKinds |-> 0 ]

sent(kind) == [ inflight EXCEPT ![kind] = @ + 1 ]

answered(kind) == [ inflight EXCEPT ![kind] = @ - 1 ]

\* The AxiosError of a failed request: error.response (its status and data.error) or
\* null when no response was received, whether error.request is set, error.message.
AxiosError(response, request, message) ==
    [ response |-> response, request |-> request, message |-> message ]

ErrorResponse(status, dataError) == [ status |-> status, error |-> dataError ]

Failures ==
    { AxiosError(Some(ErrorResponse(401, Some("Invalid credentials"))), TRUE, ""),
      AxiosError(Some(ErrorResponse(403, Null)), TRUE, ""),
      AxiosError(Some(ErrorResponse(500, Some("Database unavailable"))), TRUE, ""),
      AxiosError(Null, TRUE, ""),
      AxiosError(Null, FALSE, "canceled") }

statusOf(failure) == IF failure.response = Null THEN Null ELSE Some(failure.response[1].status)

\* a switch whose case 429 falls through to the server cases
errorTypeTooManyIsServer(status) ==
    CASE status = 401 -> "auth"
      [] status = 403 -> "authorization"
      [] status \in { 404, 400 } -> "validation"
      [] status \in { 429, 500, 502, 503 } -> "server"
      [] OTHER -> "unknown"

\* the type the interceptor's switch gives a status
errorType(status) ==
    CASE status = 401 -> "auth"
      [] status = 403 -> "authorization"
      [] status \in { 404, 429, 400 } -> "validation"
      [] status \in { 500, 502, 503 } -> "server"
      [] OTHER -> "unknown"

\* the message used when data?.error is falsy
defaultMessage(status) ==
    CASE status = 401 -> "Your session has expired. Please log in again."
      [] status = 403 -> "You do not have permission to access this resource."
      [] status = 404 -> "The requested resource was not found."
      [] status = 429 -> "Too many requests. Please try again later."
      [] status = 400 -> "Invalid request. Please check your input."
      [] status \in { 500, 502, 503 } -> "Server error. Please try again later."
      [] OTHER -> "Request failed with status"

\* The ApiError the response interceptor rejects with: message, status, type and the
\* AxiosError under originalError.  It has no field response and no field request.
ApiError(failure) ==
    IF failure.response # Null
    THEN LET status == failure.response[1].status
             data == failure.response[1].error
         IN [ message |-> IF TruthyString(data) THEN data[1] ELSE defaultMessage(status),
              status |-> Some(status),
              type |-> errorType(status),
              originalError |-> failure ]
    ELSE IF failure.request
         THEN [ message |-> "Network error. Please check your connection and try again.",
                status |-> Null,
                type |-> "network",
                originalError |-> failure ]
         ELSE [ message |-> IF failure.message # "" THEN failure.message
                            ELSE "An unexpected error occurred.",
                status |-> Null,
                type |-> "unknown",
                originalError |-> failure ]

\* case 401 removing the token and leaving the user
storeAfterErrorKeepsUser(failure) ==
    IF statusOf(failure) = Some(401)
    THEN removeItem(localStorage, "token")
    ELSE localStorage

\* apiClient.ts case 401: localStorage.removeItem('token'); localStorage.removeItem('user')
storeAfterError(failure) ==
    IF statusOf(failure) = Some(401)
    THEN removeItem(removeItem(localStorage, "token"), "user")
    ELSE localStorage

\* apiClient.ts case 401: if (window.location.pathname !== '/login') window.location.href = '/login'
redirectsToLogin(failure) ==
    statusOf(failure) = Some(401) /\ location # "/login"

\* ErrorNotification's handler, called by notifyErrorHandlers: the message it adds to
\* its list, or null for an error of type auth, which it drops
notified(apiError) ==
    IF apiError.type = "auth" THEN Null ELSE Some(apiError.message)

\* The catch of LoginPage.handleSubmit: the message it passes to setError for the
\* error login rethrew.  A field the error does not have reads undefined.
handleSubmitCatch(err) ==
    IF "response" \in DOMAIN err /\ err.response # Null
    THEN IF TruthyString(err.response[1].error)
         THEN err.response[1].error[1]
         ELSE "Invalid credentials. Please try again."
    ELSE IF "request" \in DOMAIN err /\ err.request
         THEN "Network error. Please check your connection and try again."
         ELSE "An unexpected error occurred. Please try again."

-----------------------------------------------------------------------------
(* The document and React's commit *)

Op(name) == [ op |-> name, arg |-> "", out |-> [ kind |-> "none" ] ]

\* A document load: React state is the useState initial values, nothing is mounted
\* yet, and the requests of the document that was left are abandoned.
PageLoad(url) ==
    /\ user' = Null
    /\ token' = Null
    /\ isAuthenticated' = FALSE
    /\ location' = url
    /\ phase' = "constructed"
    /\ view' = "none"
    /\ inflight' = NoRequests
    /\ isLoading' = FALSE
    /\ error' = Null

\* The render that follows a state update or a navigation.  A throw while rendering
\* is caught by ErrorBoundary, which is above AuthProvider in App: the provider is
\* unmounted with its state and the fallback is shown.
Commit(loc, tok, u, auth) ==
    LET r == Render(loc, auth, u) IN
    /\ location' = r.location
    /\ view' = r.view
    /\ IF r.view = "ErrorBoundary"
       THEN /\ phase' = "crashed"
            /\ user' = Null
            /\ token' = Null
            /\ isAuthenticated' = FALSE
       ELSE /\ phase' = "mounted"
            /\ user' = u
            /\ token' = tok
            /\ isAuthenticated' = auth

-----------------------------------------------------------------------------
(* Initial states: a document loaded at some address, over whatever an earlier     *)
(* document left in localStorage                                                    *)

StoredUsers == { JSONStringify(Some(u)) : u \in Users } \cup { "null", NotJSON }

InitialStores ==
    { [ k \in {} |-> "" ] }
      \cup { [ k \in { "token" } |-> "jwt1" ] }
      \cup { [ k \in { "user" } |-> s ] : s \in StoredUsers }
      \cup { [ k \in { "token", "user" } |-> IF k = "token" THEN "jwt1" ELSE s ] :
               s \in StoredUsers }

Init ==
    /\ user = Null
    /\ token = Null
    /\ isAuthenticated = FALSE
    /\ localStorage \in InitialStores
    /\ ROLE_PERMISSIONS = RolePermissionTable
    /\ location \in Urls
    /\ phase = "constructed"
    /\ view = "none"
    /\ inflight = NoRequests
    /\ isLoading = FALSE
    /\ error = Null
    /\ errorHandlers = << >>
    /\ issued = << >>
    /\ errors = << >>
    /\ autoHideDuration = Null
    /\ nextId = 0
    /\ ret = Op("load")

-----------------------------------------------------------------------------
(* AuthProvider *)

\* the restore effect forgetting setUser
MountWithoutUser ==
    /\ phase = "constructed"
    /\ LET first == Render(location, isAuthenticated, user)
           storedToken == getItem(localStorage, "token")
           storedUser == getItem(localStorage, "user")
       IN IF TruthyString(storedToken) /\ TruthyString(storedUser)
          THEN /\ localStorage' = localStorage
               /\ Commit(first.location, storedToken, user, TRUE)
          ELSE /\ localStorage' = localStorage
               /\ Commit(first.location, token, user, isAuthenticated)
    /\ UNCHANGED errorReporting
    /\ ret' = [ Op("mount") EXCEPT !.arg = location ]
    /\ UNCHANGED << ROLE_PERMISSIONS, inflight, loginPage >>

\* First render with the initial state, then the effects: a protected route renders
\* <Navigate to="/login">, whose effect runs before the provider's own; the provider's
\* effect restores the session; one render follows both.
Mount ==
    /\ phase = "constructed"
    /\ LET first == Render(location, isAuthenticated, user)
           storedToken == getItem(localStorage, "token")
           storedUser == getItem(localStorage, "user")
       IN IF TruthyString(storedToken) /\ TruthyString(storedUser)
          THEN LET parsedUser == JSONParse(storedUser[1]) IN
               IF parsedUser.kind = "return"
               THEN /\ localStorage' = localStorage
                    /\ Commit(first.location, storedToken, parsedUser.value, TRUE)
               ELSE /\ localStorage' = removeItem(removeItem(localStorage, "token"), "user")
                    /\ Commit(first.location, token, user, isAuthenticated)
          ELSE /\ localStorage' = localStorage
               /\ Commit(first.location, token, user, isAuthenticated)
    /\ UNCHANGED errorReporting
    /\ ret' = [ Op("mount") EXCEPT !.arg = location ]
    /\ UNCHANGED << ROLE_PERMISSIONS, inflight, loginPage >>

\* The form is submitted (its button and inputs are disabled while isLoading):
\* handleSubmit clears the error, sets isLoading and calls login, which posts
\* /auth/login and awaits the response.
LoginStart ==
    /\ phase = "mounted"
    /\ view = "LoginPage"
    /\ ~isLoading
    /\ inflight["login"] < MaxInFlight
    /\ inflight' = sent("login")
    /\ error' = Null
    /\ isLoading' = TRUE
    /\ UNCHANGED errorReporting
    /\ ret' = Op("login")
    /\ UNCHANGED << authState, localStorage, ROLE_PERMISSIONS, location, phase, view >>

\* where LoginPage.handleSubmit navigates after login resolved: it reads the user
\* login has just stored, JSON.parse(localStorage.getItem('user') || '{}'), and '{}'
\* has no role
loginTarget(store) ==
    LET stored == getItem(store, "user") IN
    IF ~TruthyString(stored)
    THEN "/dashboard"
    ELSE LET parsed == JSONParse(stored[1]) IN
         IF parsed.kind = "return" /\ parsed.value # Null
                /\ parsed.value[1].role = "manager"
         THEN "/manager-dashboard"
         ELSE "/dashboard"

\* The response of /auth/login arrives with a token and a user: login stores both and
\* sets the state, then handleSubmit navigates, which unmounts LoginPage.  When
\* ErrorBoundary has unmounted the provider the state updates are dropped;
\* localStorage and the router are not.
LoginResolve(newToken, newUser) ==
    /\ inflight["login"] > 0
    /\ inflight' = answered("login")
    /\ localStorage' =
           setItem(setItem(localStorage, "token", newToken), "user",
                   JSONStringify(Some(newUser)))
    /\ IF phase = "mounted"
       THEN Commit(loginTarget(localStorage'), Some(newToken), Some(newUser), TRUE)
       ELSE /\ location' = loginTarget(localStorage')
            /\ UNCHANGED << authState, phase, view >>
    /\ isLoading' = FALSE
    /\ error' = Null
    /\ UNCHANGED errorReporting
    /\ ret' = [ Op("loginResolved") EXCEPT
                  !.out = [ kind |-> "resolved", token |-> newToken, user |-> newUser ] ]
    /\ UNCHANGED ROLE_PERMISSIONS

\* login's catch rethrowing without clearing the state
LoginRejectKeepsState(failure, own) ==
    /\ inflight["login"] > 0
    /\ IF own THEN isLoading ELSE inflight["login"] > (IF isLoading THEN 1 ELSE 0)
    /\ localStorage' = storeAfterError(failure)
    /\ IF redirectsToLogin(failure)
       THEN PageLoad("/login")
       ELSE /\ inflight' = answered("login")
            /\ UNCHANGED << authState, location, phase, view >>
            /\ IF own
               THEN /\ error' = Some(handleSubmitCatch(ApiError(failure)))
                    /\ isLoading' = FALSE
               ELSE UNCHANGED loginPage
    /\ UNCHANGED errorReporting
    /\ ret' = [ op |-> "loginRejected",
                arg |-> IF own THEN "mounted" ELSE "unmounted",
                out |-> [ kind |-> "rejected",
                          error |-> ApiError(failure),
                          notified |-> Null ] ]
    /\ UNCHANGED ROLE_PERMISSIONS

\* The request of login fails: the interceptor runs first (a 401 clears localStorage
\* and, away from /login, loads /login; the handlers are notified); then login's catch
\* clears the state and rethrows the ApiError to handleSubmit, which sets the error
\* and isLoading of its LoginPage.  own tells whether that LoginPage is the mounted
\* one; the updates of an unmounted one are dropped.
LoginReject(failure, own) ==
    /\ inflight["login"] > 0
    /\ IF own THEN isLoading ELSE inflight["login"] > (IF isLoading THEN 1 ELSE 0)
    /\ localStorage' = storeAfterError(failure)
    /\ IF redirectsToLogin(failure)
       THEN PageLoad("/login")
       ELSE /\ inflight' = answered("login")
            /\ IF phase = "mounted"
               THEN Commit(location, Null, Null, FALSE)
               ELSE UNCHANGED << authState, location, phase, view >>
            /\ IF own
               THEN /\ error' = Some(handleSubmitCatch(ApiError(failure)))
                    /\ isLoading' = FALSE
               ELSE UNCHANGED loginPage
    /\ UNCHANGED errorReporting
    /\ ret' = [ op |-> "loginRejected",
                arg |-> IF own THEN "mounted" ELSE "unmounted",
                out |-> [ kind |-> "rejected",
                          error |-> ApiError(failure),
                          notified |-> IF phase = "mounted" /\ ~redirectsToLogin(failure)
                                       THEN notified(ApiError(failure))
                                       ELSE Null ] ]
    /\ UNCHANGED ROLE_PERMISSIONS

\* logout forgetting localStorage.removeItem('user')
LogoutKeepsStoredUser ==
    /\ phase = "mounted"
    /\ TruthyString(token) => inflight["logout"] < MaxInFlight
    /\ inflight' = IF TruthyString(token) THEN sent("logout") ELSE inflight
    /\ localStorage' = removeItem(localStorage, "token")
    /\ Commit(location, Null, Null, FALSE)
    /\ UNCHANGED errorReporting
    /\ ret' = Op("logout")
    /\ UNCHANGED << ROLE_PERMISSIONS, loginPage >>

\* logout: a fire-and-forget post when a token is held, then storage and state cleared
Logout ==
    /\ phase = "mounted"
    /\ TruthyString(token) => inflight["logout"] < MaxInFlight
    /\ inflight' = IF TruthyString(token) THEN sent("logout") ELSE inflight
    /\ localStorage' = removeItem(removeItem(localStorage, "token"), "user")
    /\ Commit(location, Null, Null, FALSE)
    /\ UNCHANGED errorReporting
    /\ ret' = Op("logout")
    /\ UNCHANGED << ROLE_PERMISSIONS, loginPage >>

\* the post of /auth/logout is answered; logout ignores the outcome
LogoutSucceed ==
    /\ inflight["logout"] > 0
    /\ inflight' = answered("logout")
    /\ UNCHANGED errorReporting
    /\ ret' = [ Op("response") EXCEPT !.arg = "logout" ]
    /\ UNCHANGED << authState, localStorage, ROLE_PERMISSIONS, location, phase, view,
                    loginPage >>

\* ... but the interceptor has seen the failure before logout's catch ignores it
LogoutFail(failure) ==
    /\ inflight["logout"] > 0
    /\ localStorage' = storeAfterError(failure)
    /\ IF redirectsToLogin(failure)
       THEN PageLoad("/login")
       ELSE /\ inflight' = answered("logout")
            /\ UNCHANGED << authState, location, phase, view, loginPage >>
    /\ UNCHANGED errorReporting
    /\ ret' = [ Op("response") EXCEPT !.arg = "logout" ]
    /\ UNCHANGED ROLE_PERMISSIONS

\* hasPermission keeping its answer in localStorage
HasPermissionCallCaching(permission) ==
    /\ phase = "mounted"
    /\ UNCHANGED errorReporting
    /\ ret' = [ op |-> "hasPermission", arg |-> permission,
                out |-> hasPermission(user, permission) ]
    /\ localStorage' = setItem(localStorage, permission, "checked")
    /\ UNCHANGED << authState, ROLE_PERMISSIONS, location, phase, view, inflight,
                    loginPage >>

\* hasPermission taking the permission out of the role's array when it finds it
HasPermissionCallSplice(permission) ==
    /\ phase = "mounted"
    /\ UNCHANGED errorReporting
    /\ ret' = [ op |-> "hasPermission", arg |-> permission,
                out |-> hasPermission(user, permission) ]
    /\ ROLE_PERMISSIONS' =
           IF ret'.out = Returned(TRUE)
           THEN [ ROLE_PERMISSIONS EXCEPT ![user[1].role] =
                      SelectSeq(@, LAMBDA x : x # permission) ]
           ELSE ROLE_PERMISSIONS
    /\ UNCHANGED << authState, localStorage, location, phase, view, inflight,
                    loginPage >>

\* a consumer of the context calls hasPermission(permission)
HasPermissionCall(permission) ==
    /\ phase = "mounted"
    /\ UNCHANGED errorReporting
    /\ ret' = [ op |-> "hasPermission", arg |-> permission,
                out |-> hasPermission(user, permission) ]
    /\ UNCHANGED << authState, localStorage, ROLE_PERMISSIONS, location, phase, view,
                    inflight, loginPage >>

-----------------------------------------------------------------------------
(* The pages, the router and the browser *)

\* a page shown inside DashboardLayout requests its data through apiClient
DataRequest ==
    /\ phase = "mounted"
    /\ view = "page"
    /\ inflight["data"] < MaxInFlight
    /\ inflight' = sent("data")
    /\ UNCHANGED errorReporting
    /\ ret' = Op("request")
    /\ UNCHANGED << authState, localStorage, ROLE_PERMISSIONS, location, phase, view,
                    loginPage >>

\* interface MetricsOverviewResponse: the optional fields of the body of
\* GET /metrics/overview
MetricSections ==
    { "revenue", "orders", "businesses", "customers", "delivery_partners", "kyc_pending" }

\* the bodies the server answers with, as the set of fields present (their numbers
\* are not zero)
MetricsResponses ==
    { {}, { "orders" }, { "revenue", "kyc_pending" }, MetricSections }

MetricCardProps(title, section, permission) ==
    [ title |-> title, section |-> section, permission |-> permission ]

\* the <MetricCard> elements of DashboardHome, each inside metrics?.<section> &&
MetricCards ==
    { MetricCardProps("Total Revenue", "revenue", "view_revenue"),
      MetricCardProps("Average Order Value", "revenue", "view_revenue"),
      MetricCardProps("Total Orders", "orders", "view_orders"),
      MetricCardProps("Pending Orders", "orders", "view_orders"),
      MetricCardProps("Completed Orders", "orders", "view_orders"),
      MetricCardProps("Cancelled Orders", "orders", "view_orders"),
      MetricCardProps("Active Businesses", "businesses", "view_businesses"),
      MetricCardProps("Pending Approval", "businesses", "view_businesses"),
      MetricCardProps("Active Delivery Partners", "delivery_partners",
                      "view_delivery_partners"),
      MetricCardProps("Available Partners", "delivery_partners",
                      "view_delivery_partners"),
      MetricCardProps("Unique Customers", "customers", "view_customers"),
      MetricCardProps("Active Customers", "customers", "view_customers"),
      MetricCardProps("Business KYC Pending", "kyc_pending", "view_kyc_queue"),
      MetricCardProps("Delivery Partner KYC Pending", "kyc_pending", "view_kyc_queue") }

\* the three header-stat-card elements: metrics?.<section>?.<field> || 0, rendered
\* without a call of hasPermission
HeaderStatCards ==
    { [ title |-> "Total Orders", section |-> "orders" ],
      [ title |-> "Active Businesses", section |-> "businesses" ],
      [ title |-> "Active Customers", section |-> "customers" ] }

\* a value on the screen: of which section, under which title, in which element
Shown(element, card) ==
    [ element |-> element, title |-> card.title, section |-> card.section ]

\* MetricCard: if (!hasPermission(permission)) return null
MetricCard(u, props) ==
    LET allowed == hasPermission(u, props.permission) IN
    IF allowed.kind = "throw"
    THEN allowed
    ELSE Returned(IF allowed.value THEN { Shown("MetricCard", props) } ELSE {})

\* DashboardHome once setMetrics(response.data) has run: the metric values on the
\* screen, or the throw of a MetricCard
DashboardHome(u, metrics) ==
    LET cards == { props \in MetricCards : props.section \in metrics } IN
    IF \E props \in cards : MetricCard(u, props).kind = "throw"
    THEN Thrown("TypeError")
    ELSE Returned({ Shown("header-stat-card", card) :
                        card \in { c \in HeaderStatCards : c.section \in metrics } }
                    \cup UNION { MetricCard(u, props).value : props \in cards })

\* UserManagementPage: canManageUsers = hasPermission(MANAGE_USERS); without it the
\* page returns its access-denied block
UserManagementPage(u) ==
    LET canManageUsers == hasPermission(u, "manage_users") IN
    IF canManageUsers.kind = "throw"
    THEN canManageUsers
    ELSE Returned(IF canManageUsers.value THEN "content" ELSE "access-denied")

\* UserManagement: if (!hasPermission(Permission.MANAGE_USERS)) return null
UserManagement(u) ==
    LET canManageUsers == hasPermission(u, "manage_users") IN
    IF canManageUsers.kind = "throw"
    THEN canManageUsers
    ELSE Returned(IF canManageUsers.value THEN "content" ELSE "null")

\* hasPermission(permission) || hasPermission(Permission.MANAGE_USERS), the second
\* call made only when the first returned false
withManageUsersOverride(u, permission) ==
    LET own == hasPermission(u, permission) IN
    IF own.kind = "throw" \/ own.value THEN own ELSE hasPermission(u, "manage_users")

\* the components that use it, each with the permission it asks for first
OverrideComponents ==
    { [ component |-> "RevenueReportsPage", permission |-> "view_revenue" ],
      [ component |-> "RevenueChart", permission |-> "view_revenue" ],
      [ component |-> "OrderManagementPage", permission |-> "view_orders" ],
      [ component |-> "OrdersTable", permission |-> "view_orders" ],
      [ component |-> "SystemLogsPage", permission |-> "view_system_logs" ],
      [ component |-> "SystemLogsPage", permission |-> "view_api_analytics" ],
      [ component |-> "KYCVerificationPage", permission |-> "view_kyc_queue" ],
      [ component |-> "KYCVerificationQueue", permission |-> "view_kyc_queue" ],
      [ component |-> "KYCVerificationQueue", permission |-> "verify_kyc" ] }

\* What the answer of a data request puts on the screen: on the dashboard home it is
\* the answer of GET /metrics/overview.
dataShown(data) ==
    IF phase = "mounted" /\ view = "page" /\ location = "/dashboard"
    THEN [ kind |-> "metrics", metrics |-> data, shown |-> DashboardHome(user, data) ]
    ELSE [ kind |-> "none" ]

\* a data response that also refreshes the held user from the server's record
DataSucceedRefreshUser(data) ==
    /\ inflight["data"] > 0
    /\ inflight' = answered("data")
    /\ UNCHANGED errorReporting
    /\ ret' = [ Op("response") EXCEPT !.out = dataShown(data) ]
    /\ user' = IF user = Null THEN user ELSE Some([ user[1] EXCEPT !.role = "support" ])
    /\ UNCHANGED << token, isAuthenticated, localStorage, ROLE_PERMISSIONS, location,
                    phase, view, loginPage >>

\* the request of a page is answered with its data
DataSucceed(data) ==
    /\ inflight["data"] > 0
    /\ inflight' = answered("data")
    /\ UNCHANGED errorReporting
    /\ ret' = [ Op("response") EXCEPT !.out = dataShown(data) ]
    /\ UNCHANGED << authState, localStorage, ROLE_PERMISSIONS, location, phase, view,
                    loginPage >>

DataFail(failure) ==
    /\ inflight["data"] > 0
    /\ localStorage' = storeAfterError(failure)
    /\ IF redirectsToLogin(failure)
       THEN PageLoad("/login")
       ELSE /\ inflight' = answered("data")
            /\ UNCHANGED << authState, location, phase, view, loginPage >>
    /\ UNCHANGED errorReporting
    /\ ret' = Op("response")
    /\ UNCHANGED ROLE_PERMISSIONS

\* a <Link>, navigate(...) or the back button: the router's location changes.  The
\* route element of the location left is unmounted: a LoginPage shown afterwards is
\* a new one.
Goto(path) ==
    /\ phase = "mounted"
    /\ path # location
    /\ Commit(path, token, user, isAuthenticated)
    /\ isLoading' = FALSE
    /\ error' = Null
    /\ UNCHANGED errorReporting
    /\ ret' = [ Op("navigate") EXCEPT !.arg = path ]
    /\ UNCHANGED << localStorage, ROLE_PERMISSIONS, inflight >>

\* the address bar or the reload button of the browser
LoadUrl(url) ==
    /\ PageLoad(url)
    /\ UNCHANGED errorReporting
    /\ ret' = Op("load")
    /\ UNCHANGED << localStorage, ROLE_PERMISSIONS >>

\* ErrorBoundary.handleReload: window.location.reload()
handleReload ==
    /\ phase = "crashed"
    /\ PageLoad(location)
    /\ UNCHANGED errorReporting
    /\ ret' = Op("load")
    /\ UNCHANGED << localStorage, ROLE_PERMISSIONS >>

\* ErrorBoundary.handleReturnToDashboard: window.location.href = '/dashboard'
handleReturnToDashboard ==
    /\ phase = "crashed"
    /\ PageLoad("/dashboard")
    /\ UNCHANGED errorReporting
    /\ ret' = Op("load")
    /\ UNCHANGED << localStorage, ROLE_PERMISSIONS >>

-----------------------------------------------------------------------------

Next ==
    \/ Mount
    \/ LoginStart
    \/ \E newToken \in Tokens, newUser \in Users : LoginResolve(newToken, newUser)
    \/ \E failure \in Failures, own \in BOOLEAN : LoginReject(failure, own)
    \/ Logout
    \/ LogoutSucceed
    \/ \E failure \in Failures : LogoutFail(failure)
    \/ \E permission \in CalledPermissions : HasPermissionCall(permission)
    \/ DataRequest
    \/ \E data \in MetricsResponses : DataSucceed(data)
    \/ \E failure \in Failures : DataFail(failure)
    \/ \E path \in Urls : Goto(path)
    \/ \E url \in Urls : LoadUrl(url)
    \/ handleReload
    \/ handleReturnToDashboard

Spec == Init /\ [][Next]_vars

\* Spec leaves the handler registry of apiClient and ErrorNotification at their
\* initial values.  Two specifications below take apiClient by itself, in a document
\* whose requests fail, and leave the auth state alone: InterceptorSpec is the
\* response interceptor over all the failures it distinguishes, with nothing
\* registered; RegistrySpec is the registry and ErrorNotification over three of them.

-----------------------------------------------------------------------------
(* apiClient.ts: errorHandlers, registerErrorHandler, notifyErrorHandlers *)

\* The functions passed to registerErrorHandler (type ErrorHandler): the callback of
\* ErrorNotification, whose unregister function React keeps for the cleanup; a handler
\* that keeps its own unregister function and calls it when it is notified; and a
\* handler that throws, whose caller keeps the unregister function.
SelfUnregistering == "once"

CallerHandlers == { "throwing" }

Handlers == { "ErrorNotification", SelfUnregistering } \cup CallerHandlers

\* Array.prototype.indexOf, with the indices of JavaScript: 0 for the first element,
\* -1 when x is not in the array
indexOf(arr, x) ==
    IF \E i \in 1..Len(arr) : arr[i] = x
    THEN (CHOOSE i \in 1..Len(arr) : arr[i] = x /\ \A j \in 1..(i - 1) : arr[j] # x) - 1
    ELSE -1

\* arr.splice(index, 1): the array without its element at index
splice(arr, index) ==
    SubSeq(arr, 1, index) \o SubSeq(arr, index + 2, Len(arr))

\* the function registerErrorHandler returns: index = errorHandlers.indexOf(handler);
\* if (index > -1) errorHandlers.splice(index, 1)
unregister(handlers, handler) ==
    LET index == indexOf(handlers, handler) IN
    IF index > -1 THEN splice(handlers, index) ELSE handlers

\* what a call of handler(error) does to the array, and how it ends
called(handlers, handler) ==
    [ handlers |-> IF handler = SelfUnregistering
                   THEN unregister(handlers, handler)
                   ELSE handlers,
      outcome |-> IF handler = "throwing" THEN "throw" ELSE "return" ]

\* errorHandlers.forEach(handler => { try { handler(error) } catch ... }): forEach
\* visits the indices below the length the array had when it started and passes over
\* an index that is no longer in the array; a throw is caught and logged.  Gives the
\* array afterwards and the calls made, in order.
RECURSIVE forEach(_, _, _, _)
forEach(handlers, k, len, calls) ==
    IF k >= len
    THEN [ handlers |-> handlers, calls |-> calls ]
    ELSE IF k >= Len(handlers)
         THEN forEach(handlers, k + 1, len, calls)
         ELSE LET handler == handlers[k + 1]
                  c == called(handlers, handler)
              IN forEach(c.handlers, k + 1, len,
                         Append(calls, [ handler |-> handler, outcome |-> c.outcome ]))

notifyErrorHandlers(handlers) == forEach(handlers, 0, Len(handlers), << >>)

\* registerErrorHandler(handler): errorHandlers.push(handler), and an unregister
\* function is returned; the one returned to a caller that keeps it is issued
registerErrorHandler(handler) ==
    /\ Len(errorHandlers) < MaxHandlers
    /\ handler \in CallerHandlers => Len(issued) < MaxRegistrations
    /\ errorHandlers' = Append(errorHandlers, handler)
    /\ issued' = IF handler \in CallerHandlers
                 THEN Append(issued, [ handler |-> handler, called |-> FALSE ])
                 ELSE issued
    /\ ret' = [ Op("register") EXCEPT !.arg = handler ]
    /\ UNCHANGED << authState, localStorage, ROLE_PERMISSIONS, location, phase, view,
                    inflight, loginPage, errors, autoHideDuration, nextId >>

\* a caller calls the unregister function of its r-th registration, for the first
\* time or again
Unregister(r) ==
    /\ r \in DOMAIN issued
    /\ errorHandlers' = unregister(errorHandlers, issued[r].handler)
    /\ issued' = [ issued EXCEPT ![r].called = TRUE ]
    /\ ret' = [ op |-> "unregister", arg |-> issued[r].handler,
                out |-> [ kind |-> "none", registration |-> r,
                          again |-> issued[r].called ] ]
    /\ UNCHANGED << authState, localStorage, ROLE_PERMISSIONS, location, phase, view,
                    inflight, loginPage, errors, autoHideDuration, nextId >>

-----------------------------------------------------------------------------
(* ErrorNotification *)

\* the values of the prop autoHideDuration: the default, and 0, which turns the
\* timer off
AutoHideDurations == { 0, 5000 }

\* errors.filter(e => e.id !== id)
withoutId(list, id) == SelectSeq(list, LAMBDA e : e.id # id)

\* the callback without its return for type auth
errorHandlerShowsAuth(list, id, apiError, duration) ==
    Append(list, [ id |-> id, type |-> apiError.type, message |-> apiError.message,
                   timer |-> duration > 0 ])

\* The callback ErrorNotification registers, for one error: nothing for type auth;
\* otherwise the error is appended under a new id, and setTimeout is called when
\* autoHideDuration > 0.
errorHandler(list, id, apiError, duration) ==
    IF apiError.type = "auth"
    THEN list
    ELSE Append(list, [ id |-> id, type |-> apiError.type, message |-> apiError.message,
                        timer |-> duration > 0 ])

\* the callback called n times
RECURSIVE delivered(_, _, _, _, _)
delivered(list, id, apiError, duration, n) ==
    IF n = 0
    THEN list
    ELSE delivered(errorHandler(list, id + 1, apiError, duration), id + 1, apiError,
                   duration, n - 1)

\* useEffect of ErrorNotification: registerErrorHandler(callback); the list starts empty
MountErrorNotification(duration) ==
    /\ autoHideDuration = Null
    /\ Len(errorHandlers) < MaxHandlers
    /\ errorHandlers' = Append(errorHandlers, "ErrorNotification")
    /\ autoHideDuration' = Some(duration)
    /\ errors' = << >>
    /\ ret' = [ Op("register") EXCEPT !.arg = "ErrorNotification" ]
    /\ UNCHANGED << authState, localStorage, ROLE_PERMISSIONS, location, phase, view,
                    inflight, loginPage, issued, nextId >>

\* the cleanup of that effect: return unregister.  The state goes with the component,
\* and a timer that fires later finds nothing to update.
UnmountErrorNotification ==
    /\ autoHideDuration # Null
    /\ errorHandlers' = unregister(errorHandlers, "ErrorNotification")
    /\ autoHideDuration' = Null
    /\ errors' = << >>
    /\ ret' = [ Op("unregister") EXCEPT !.arg = "ErrorNotification" ]
    /\ UNCHANGED << authState, localStorage, ROLE_PERMISSIONS, location, phase, view,
                    inflight, loginPage, issued, nextId >>

\* handleDismiss(id): the close button of a displayed error
handleDismiss(id) ==
    /\ \E i \in 1..Len(errors) : errors[i].id = id
    /\ errors' = withoutId(errors, id)
    /\ ret' = [ Op("dismiss") EXCEPT !.out = [ kind |-> "none", id |-> id ] ]
    /\ UNCHANGED << authState, localStorage, ROLE_PERMISSIONS, location, phase, view,
                    inflight, loginPage, errorHandlers, issued, autoHideDuration, nextId >>

\* the callback of setTimeout(..., autoHideDuration) for an error still displayed
autoHide(id) ==
    /\ \E i \in 1..Len(errors) : errors[i].id = id /\ errors[i].timer
    /\ errors' = withoutId(errors, id)
    /\ ret' = [ Op("autoHide") EXCEPT !.out = [ kind |-> "none", id |-> id ] ]
    /\ UNCHANGED << authState, localStorage, ROLE_PERMISSIONS, location, phase, view,
                    inflight, loginPage, errorHandlers, issued, autoHideDuration, nextId >>

\* handleRetry, the Retry button of a displayed network or server error:
\* window.location.reload().  The document is loaded anew, with an empty registry and
\* nothing mounted.
handleRetry(id) ==
    /\ \E i \in 1..Len(errors) :
          errors[i].id = id /\ errors[i].type \in { "network", "server" }
    /\ inflight' = NoRequests
    /\ errorHandlers' = << >>
    /\ issued' = << >>
    /\ errors' = << >>
    /\ autoHideDuration' = Null
    /\ nextId' = 0
    /\ ret' = [ Op("retry") EXCEPT !.out = [ kind |-> "none", id |-> id ] ]
    /\ UNCHANGED << authState, localStorage, ROLE_PERMISSIONS, location, phase, view,
                    loginPage >>

-----------------------------------------------------------------------------
(* Requests through apiClient, as the registry and ErrorNotification see them *)

\* the statuses of the interceptor's switch, and 418 for its default branch
StatusCodes == { 400, 401, 403, 404, 418, 429, 500, 502, 503 }

\* the failures of a request: each status without data.error, two of them with it,
\* no response to a request that was sent, and a request that was never sent
ApiFailures ==
    { AxiosError(Some(ErrorResponse(status, Null)), TRUE, "") : status \in StatusCodes }
      \cup Failures

\* a request is sent through apiClient
ApiRequest ==
    /\ inflight["data"] < MaxInFlight
    /\ inflight' = sent("data")
    /\ ret' = Op("request")
    /\ UNCHANGED << authState, localStorage, ROLE_PERMISSIONS, location, phase, view,
                    loginPage, errorReporting >>

\* the interceptor's first function: return response
ApiResolve ==
    /\ inflight["data"] > 0
    /\ inflight' = answered("data")
    /\ ret' = [ Op("response") EXCEPT !.out = [ kind |-> "resolved" ] ]
    /\ UNCHANGED << authState, localStorage, ROLE_PERMISSIONS, location, phase, view,
                    loginPage, errorReporting >>

\* The interceptor's second function, for a request that failed: the ApiError is
\* built (a 401 clears the two keys and, away from /login, assigns
\* window.location.href), the handlers are notified and the promise is rejected with
\* the ApiError.  The document that /login is loaded in starts with an empty
\* registry and nothing mounted.
ApiReject(failure) ==
    /\ inflight["data"] > 0
    /\ LET apiError == ApiError(failure)
           notification == notifyErrorHandlers(errorHandlers)
           n == Len(SelectSeq(notification.calls,
                              LAMBDA c : c.handler = "ErrorNotification"))
           added == IF apiError.type = "auth" THEN 0 ELSE n
       IN /\ nextId + added <= MaxErrors
          /\ localStorage' = storeAfterError(failure)
          /\ IF redirectsToLogin(failure)
             THEN /\ location' = "/login"
                  /\ inflight' = NoRequests
                  /\ errorHandlers' = << >>
                  /\ issued' = << >>
                  /\ errors' = << >>
                  /\ autoHideDuration' = Null
                  /\ nextId' = 0
             ELSE /\ location' = location
                  /\ inflight' = answered("data")
                  /\ errorHandlers' = notification.handlers
                  /\ issued' = issued
                  /\ errors' = IF autoHideDuration = Null
                               THEN errors
                               ELSE delivered(errors, nextId, apiError,
                                              autoHideDuration[1], n)
                  /\ autoHideDuration' = autoHideDuration
                  /\ nextId' = nextId + added
          /\ ret' = [ op |-> "rejected",
                      arg |-> location,
                      out |-> [ kind |-> "rejected",
                                error |-> apiError,
                                calls |-> notification.calls ] ]
    /\ UNCHANGED << authState, ROLE_PERMISSIONS, phase, view, loginPage >>

ApiInit ==
    /\ user = Null
    /\ token = Null
    /\ isAuthenticated = FALSE
    /\ localStorage \in InitialStores
    /\ ROLE_PERMISSIONS = RolePermissionTable
    /\ location \in Urls
    /\ phase = "constructed"
    /\ view = "none"
    /\ inflight = NoRequests
    /\ isLoading = FALSE
    /\ error = Null
    /\ errorHandlers = << >>
    /\ issued = << >>
    /\ errors = << >>
    /\ autoHideDuration = Null
    /\ nextId = 0
    /\ ret = Op("load")

InterceptorNext ==
    \/ ApiRequest
    \/ ApiResolve
    \/ \E failure \in ApiFailures : ApiReject(failure)

InterceptorSpec == ApiInit /\ [][InterceptorNext]_vars

\* the failures RegistrySpec notifies the handlers of: one of type auth, one of type
\* server, one of type network
NotifiedFailures ==
    { AxiosError(Some(ErrorResponse(401, Some("Invalid credentials"))), TRUE, ""),
      AxiosError(Some(ErrorResponse(500, Some("Database unavailable"))), TRUE, ""),
      AxiosError(Null, TRUE, "") }

RegistryInit ==
    /\ ApiInit
    /\ location = "/dashboard"
    /\ DOMAIN localStorage = {}

RegistryNext ==
    \/ \E handler \in Handlers \ { "ErrorNotification" } : registerErrorHandler(handler)
    \/ \E r \in 1..MaxRegistrations : Unregister(r)
    \/ \E duration \in AutoHideDurations : MountErrorNotification(duration)
    \/ UnmountErrorNotification
    \/ \E id \in 1..MaxErrors : handleDismiss(id)
    \/ \E id \in 1..MaxErrors : autoHide(id)
    \/ \E id \in 1..MaxErrors : handleRetry(id)
    \/ ApiRequest
    \/ \E failure \in NotifiedFailures : ApiReject(failure)

RegistrySpec == RegistryInit /\ [][RegistryNext]_vars

-----------------------------------------------------------------------------
(* Properties *)

\* the permissions in a role's array of the table
PermissionsOf(role) ==
    { ROLE_PERMISSIONS[role][i] : i \in 1..Len(ROLE_PERMISSIONS[role]) }

\* the requiredPermissions lists the guard is asked about: the lists of App's routes
\* and every list of at most MaxRequired of the called permissions
RequiredLists ==
    { RouteTable[path] : path \in DOMAIN RouteTable }
      \cup UNION { [ 1..n -> CalledPermissions ] : n \in 0..MaxRequired }

RedirectTargets == { "/login", "/signin" }

\* the last step was a call of hasPermission
Called == ret.op = "hasPermission"

\* C1: when the state holds a user whose role is one of the six roles, hasPermission(P)
\* returns true if and only if P is in ROLE_PERMISSIONS[role], for each of the fourteen
\* permissions; and a call made in that state returned exactly that.
C1_GrantedIffInRolePermissions ==
    \A R \in UserRole :
        (user # Null /\ user[1].role = R) =>
            /\ \A P \in Permission :
                   hasPermission(user, P) = Returned(P \in PermissionsOf(R))
            /\ Called => ret.out = Returned(ret.arg \in PermissionsOf(R))

C1_Witness ==
    /\ Called
    /\ user # Null
    /\ user[1].role = "manager"
    /\ ret.arg = "view_orders"
    /\ ret.out = Returned(TRUE)

\* C2: in every state that holds no user, hasPermission(P) returns false for every
\* permission P.
C2_NoUserNoPermission ==
    user = Null =>
        /\ \A P \in Permission : hasPermission(user, P) = Returned(FALSE)
        /\ Called => ret.out = Returned(FALSE)

\* a call answered false after a logout of a session (its request is still pending)
C2_Witness ==
    /\ Called
    /\ user = Null
    /\ ~isAuthenticated
    /\ inflight["logout"] > 0
    /\ ret.out = Returned(FALSE)

\* C3: whenever isAuthenticated is false, ProtectedRoute yields a redirect to
\* redirectTo for any requiredPermissions, and neither a protected page nor the
\* access-denied view is on screen.
C3_UnauthenticatedRedirects ==
    ~isAuthenticated =>
        /\ \A required \in RequiredLists, to \in RedirectTargets :
               ProtectedRoute(isAuthenticated, user, required, to) = Navigate(to)
        /\ view \notin { "page", "AccessDenied" }

\* an unauthenticated visitor asked for /user-management and is on the login page
C3_Witness ==
    /\ ~isAuthenticated
    /\ phase = "mounted"
    /\ ret.op = "navigate"
    /\ ret.arg = "/user-management"
    /\ location = "/login"
    /\ view = "LoginPage"

\* C4: when isAuthenticated is true, ProtectedRoute renders its children if and only
\* if hasPermission grants every permission of requiredPermissions, and renders
\* AccessDenied otherwise (it never redirects and never fails).
C4_AuthenticatedChildrenOrDenied ==
    isAuthenticated =>
        \A required \in RequiredLists, to \in RedirectTargets :
            ProtectedRoute(isAuthenticated, user, required, to) =
                IF \A i \in 1..Len(required) :
                       hasPermission(user, required[i]) = Returned(TRUE)
                THEN Children
                ELSE AccessDenied

\* C5: the array of super_admin holds all fourteen permissions, so it contains the
\* array of every other role, and a super_admin user is granted every permission.
C5_SuperAdminHasAll ==
    /\ PermissionsOf("super_admin") = Permission
    /\ \A R \in UserRole : PermissionsOf(R) \subseteq PermissionsOf("super_admin")
    /\ (user # Null /\ user[1].role = "super_admin") =>
           \A P \in Permission : hasPermission(user, P) = Returned(TRUE)

C5_Witness ==
    /\ Called
    /\ user # Null
    /\ user[1].role = "super_admin"
    /\ ret.arg = "manage_users"
    /\ ret.out = Returned(TRUE)

\* C6: for every user the state can hold and every permission, hasPermission returns
\* a boolean (it never throws), and false when the permission is not granted.
C6_NeverThrows ==
    /\ \A P \in Permission :
           /\ hasPermission(user, P).kind = "return"
           /\ (user # Null /\ user[1].role \notin UserRole) =>
                  hasPermission(user, P) = Returned(FALSE)
    /\ Called => ret.out.kind = "return"

\* C7: kyc_associate has exactly view_kyc_queue and verify_kyc: hasPermission is true
\* for these two and false for the other twelve.
C7_KycAssociateExactly ==
    /\ PermissionsOf("kyc_associate") = { "view_kyc_queue", "verify_kyc" }
    /\ (user # Null /\ user[1].role = "kyc_associate") =>
           /\ \A P \in Permission :
                  hasPermission(user, P) =
                      Returned(P \in { "view_kyc_queue", "verify_kyc" })
           /\ Called => ret.out = Returned(ret.arg \in { "view_kyc_queue", "verify_kyc" })

C7_Witness ==
    /\ Called
    /\ user # Null
    /\ user[1].role = "kyc_associate"
    /\ ret.arg = "view_revenue"
    /\ ret.out = Returned(FALSE)

\* C8: a call of hasPermission leaves user, token, isAuthenticated, the table and
\* localStorage as they were, and a call that follows a call with the same permission
\* gives the same result.
C8_HasPermissionPure ==
    [][ ret'.op = "hasPermission" =>
          /\ UNCHANGED << user, token, isAuthenticated, ROLE_PERMISSIONS, localStorage >>
          /\ (ret.op = "hasPermission" /\ ret.arg = ret'.arg) => ret'.out = ret.out
      ]_vars

\* a granted call in a restored or logged-in session
C8_Witness ==
    /\ Called
    /\ isAuthenticated
    /\ "token" \in DOMAIN localStorage
    /\ ret.out = Returned(TRUE)

\* C9: the table has an entry for each of the six roles and for nothing else, each
\* entry holds permissions only, and the table is the one the module was loaded with
\* whatever operations have run.
C9_TableTotalAndStatic ==
    /\ DOMAIN ROLE_PERMISSIONS = UserRole
    /\ \A R \in UserRole : PermissionsOf(R) \subseteq Permission
    /\ ROLE_PERMISSIONS = RolePermissionTable

\* a granted call in a session that was logged in after a logout was sent
C9_Witness ==
    /\ Called
    /\ ret.out = Returned(TRUE)
    /\ isAuthenticated
    /\ inflight["logout"] > 0

\* C10: while AuthProvider stays mounted, a step that is neither the settling of a
\* login nor a logout leaves the held user, and with it the result of hasPermission
\* for every permission, unchanged.
C10_RoleFixedInSession ==
    [][ ( /\ phase = "mounted"
          /\ phase' = "mounted"
          /\ ret'.op \notin { "loginResolved", "loginRejected", "logout" } ) =>
          /\ user' = user
          /\ \A P \in Permission : hasPermission(user, P)' = hasPermission(user, P)
      ]_vars

\* a data response arrived in a session and a page is still shown to its user
C10_Witness ==
    /\ ret.op = "response"
    /\ user # Null
    /\ isAuthenticated
    /\ view = "page"

C12_LoginEstablishesSession ==
    [][ ret'.op = "loginResolved" =>
          /\ isAuthenticated'
          /\ token' = Some(ret'.out.token)
          /\ user' = Some(ret'.out.user)
          /\ getItem(localStorage', "token") = Some(ret'.out.token)
          /\ getItem(localStorage', "user") = Some(JSONStringify(Some(ret'.out.user)))
      ]_vars

\* C13: the step in which the login request fails hands the interceptor's error of that
\* failure to the caller of login as a rejection, and the state after it is
\* isAuthenticated = false, user = null, token = null, whatever it was before.
C13_LoginFailureClearsState ==
    [][ ret'.op = "loginRejected" =>
          /\ ret'.out.kind = "rejected"
          /\ ret'.out.error \in { ApiError(failure) : failure \in Failures }
          /\ ~isAuthenticated'
          /\ user' = Null
          /\ token' = Null
      ]_vars

\* a login rejected with a 500 on the login page of a restored session: the state is
\* cleared while localStorage still holds the session that had been restored
C13_Witness ==
    /\ ret.op = "loginRejected"
    /\ ret.out.error.status = Some(500)
    /\ phase = "mounted"
    /\ ~isAuthenticated
    /\ user = Null
    /\ token = Null
    /\ getItem(localStorage, "token") = Some("jwt1")
    /\ getItem(localStorage, "user") # Null

\* C14: after the step of logout, from whatever state, isAuthenticated is false, user
\* and token are null and localStorage holds neither 'token' nor 'user', while its
\* request is still unanswered; and the step in which that request is answered, with
\* success or with a failure, brings back neither a piece of the state nor a key.
C14_LogoutClears ==
    [][ /\ ret'.op = "logout" =>
              /\ ~isAuthenticated'
              /\ user' = Null
              /\ token' = Null
              /\ "token" \notin DOMAIN localStorage'
              /\ "user" \notin DOMAIN localStorage'
        /\ (ret'.op = "response" /\ ret'.arg = "logout") =>
              /\ ~isAuthenticated => ~isAuthenticated'
              /\ user = Null => user' = Null
              /\ token = Null => token' = Null
              /\ DOMAIN localStorage' \subseteq DOMAIN localStorage
      ]_vars

\* a session just logged out, the post of /auth/logout still unanswered
C14_Witness ==
    /\ ret.op = "logout"
    /\ inflight["logout"] > 0
    /\ ~isAuthenticated
    /\ user = Null
    /\ token = Null
    /\ DOMAIN localStorage = {}
    /\ view = "LoginPage"

\* C15: when localStorage holds a token and a parseable user and the document is loaded
\* at a protected route, the mount ends with ProtectedRoute's decision for the stored
\* user at that route (the page when the role has all required permissions, the
\* access-denied view otherwise), at that route, and not on the login page.
C15_RestoredSessionReachesRoute ==
    [][ LET storedToken == getItem(localStorage, "token")
            storedUser == getItem(localStorage, "user")
        IN ( /\ ret'.op = "mount"
             /\ location \in DOMAIN RouteTable
             /\ TruthyString(storedToken)
             /\ TruthyString(storedUser)
             /\ JSONParse(storedUser[1]).kind = "return" )
           => LET decision == ProtectedRoute(TRUE, JSONParse(storedUser[1]).value,
                                             RouteTable[location], "/login")
              IN /\ view' # "LoginPage"
                 /\ location' = location
                 /\ decision.kind = "children" => view' = "page"
                 /\ decision.kind = "AccessDenied" => view' = "AccessDenied"
      ]_vars

\* C16: after the step in which a login resolves, the router is at /dashboard, for a
\* user of any role, and the route it is at is one of the routes App serves.
C16_LoginLandsOnDashboard ==
    [][ ret'.op = "loginResolved" =>
          /\ location' = "/dashboard"
          /\ location' \in DOMAIN RouteTable
          /\ view' # "blank"
      ]_vars

\* C17: when the login request of the mounted LoginPage is rejected with a response
\* that carries an error message, that message is displayed on the login page (as
\* LoginPage's error, or as the notification ErrorNotification puts over it); when no
\* response was received, the network-error message is.
C17_LoginErrorDisplayed ==
    [][ (ret'.op = "loginRejected" /\ ret'.arg = "mounted") =>
          LET failure == ret'.out.error.originalError
              displayed == { error', ret'.out.notified } \ { Null }
          IN /\ (failure.response # Null /\ TruthyString(failure.response[1].error))
                    => failure.response[1].error \in displayed
             /\ (failure.response = Null /\ failure.request)
                    => Some("Network error. Please check your connection and try again.")
                           \in displayed
      ]_vars

\* C18: while a login call is pending the login form shown is disabled (isLoading is
\* true); isLoading is false after every step that settles the attempt of the form,
\* resolved or rejected; and at most one login request is in flight at a time.
C18_FormDisabledWhileLoginPending ==
    [][ /\ (view' = "LoginPage" /\ inflight'["login"] > 0) => isLoading'
        /\ ( \/ ret'.op = "loginResolved"
             \/ ret'.op = "loginRejected" /\ ret'.arg = "mounted" ) => ~isLoading'
        /\ inflight'["login"] <= 1
      ]_vars

\* the view permission that goes with a section of the metrics
viewPermission(section) ==
    CASE section = "revenue" -> "view_revenue"
      [] section = "orders" -> "view_orders"
      [] section = "businesses" -> "view_businesses"
      [] section = "customers" -> "view_customers"
      [] section = "delivery_partners" -> "view_delivery_partners"
      [] section = "kyc_pending" -> "view_kyc_queue"

\* C19: whenever the dashboard home has put the answer of the metrics request on the
\* screen, every metric value shown belongs to a section whose view permission the
\* role of the user has.
C19_MetricsGatedByPermission ==
    (ret.op = "response" /\ ret.out.kind = "metrics" /\ ret.out.shown.kind = "return") =>
        \A shown \in ret.out.shown.value :
            /\ user # Null
            /\ user[1].role \in DOMAIN ROLE_PERMISSIONS
            /\ viewPermission(shown.section) \in PermissionsOf(user[1].role)

\* C20: manage_users is in the permission set of super_admin and of no other role;
\* for the user of every state, UserManagementPage and UserManagement render their
\* content exactly when the user is a super_admin, and a component that accepts
\* manage_users in place of its own permission is opened by that override only for a
\* super_admin.
C20_UserManagementSuperAdminOnly ==
    LET isSuperAdmin == user # Null /\ user[1].role = "super_admin" IN
    /\ \A R \in UserRole : "manage_users" \in PermissionsOf(R) <=> R = "super_admin"
    /\ UserManagementPage(user) = Returned("content") <=> isSuperAdmin
    /\ UserManagement(user) = Returned("content") <=> isSuperAdmin
    /\ \A c \in OverrideComponents :
           ( /\ withManageUsersOverride(user, c.permission) = Returned(TRUE)
             /\ hasPermission(user, c.permission) # Returned(TRUE) ) => isSuperAdmin
    /\ (view = "page" /\ location = "/user-management") => isSuperAdmin

\* a super_admin on the user-management page, whose components render their content
C20_Witness ==
    /\ phase = "mounted"
    /\ view = "page"
    /\ location = "/user-management"
    /\ user # Null
    /\ user[1].role = "super_admin"
    /\ UserManagementPage(user) = Returned("content")
    /\ UserManagement(user) = Returned("content")

\* C21: in the step in which a request is rejected for a 401 response, the interceptor
\* leaves localStorage with neither 'token' nor 'user'; the browser is at /login
\* afterwards, by a redirect that loads the document anew when the path was another
\* one and without one when it was /login (the other requests stay pending); and the
\* error the caller is rejected with has type auth.
C21_UnauthorizedClearsAndRedirects ==
    [][ (ret'.op = "rejected" /\ ret'.out.error.status = Some(401)) =>
          /\ "token" \notin DOMAIN localStorage'
          /\ "user" \notin DOMAIN localStorage'
          /\ location' = "/login"
          /\ location = "/login" => inflight' = answered("data")
          /\ location # "/login" => inflight' = NoRequests
          /\ ret'.out.kind = "rejected"
          /\ ret'.out.error.type = "auth"
      ]_vars

\* a 401 received on /dashboard by a document that held a session
C21_Witness ==
    /\ ret.op = "rejected"
    /\ ret.arg = "/dashboard"
    /\ ret.out.error.status = Some(401)
    /\ ret.out.error.type = "auth"
    /\ location = "/login"
    /\ DOMAIN localStorage = {}

\* C22: every failed request is rejected with an ApiError of exactly one type, given
\* by what the AxiosError holds: a response with status 401 gives auth, 403 gives
\* authorization, 400, 404 or 429 validation, 500, 502 or 503 server, any other status
\* unknown; no response but a request gives network; neither gives unknown.
C22_FailureClassified ==
    [][ ret'.op = "rejected" =>
          LET apiError == ret'.out.error
              cause == apiError.originalError
              expected ==
                  IF cause.response # Null
                  THEN LET status == cause.response[1].status
                       IN IF status = 401 THEN "auth"
                          ELSE IF status = 403 THEN "authorization"
                          ELSE IF status = 400 \/ status = 404 \/ status = 429 THEN "validation"
                          ELSE IF status = 500 \/ status = 502 \/ status = 503 THEN "server"
                          ELSE "unknown"
                  ELSE IF cause.request THEN "network" ELSE "unknown"
          IN /\ ret'.out.kind = "rejected"
             /\ apiError.type = expected
             /\ apiError.type \in { "auth", "authorization", "validation", "server",
                                    "network", "unknown" }
             /\ apiError.status = statusOf(cause)
      ]_vars

C22_Witness ==
    /\ ret.op = "rejected"
    /\ ret.out.kind = "rejected"
    /\ ret.out.error.status = Some(429)
    /\ ret.out.error.type = "validation"
    /\ ret.out.error.originalError.response # Null

\* C23: for every failed request, the handlers called are the handlers registered when
\* the request failed, each once and in registration order, whether or not one of them
\* throws, and the request is rejected with the ApiError.
C23_EveryHandlerCalledOnceInOrder ==
    [][ ret'.op = "rejected" =>
          /\ Len(ret'.out.calls) = Len(errorHandlers)
          /\ \A i \in 1..Len(errorHandlers) :
                i <= Len(ret'.out.calls) => ret'.out.calls[i].handler = errorHandlers[i]
          /\ ret'.out.kind = "rejected"
          /\ ret'.out.error = ApiError(ret'.out.error.originalError)
      ]_vars

\* C24: the first call of the unregister function of a registration of h takes one
\* registration of h out of the registry and leaves the other handlers registered, in
\* their order; a later call of the same function leaves the registry as it is.
C24_UnregisterRemovesOwnRegistration ==
    [][ (ret'.op = "unregister" /\ ret'.arg \in CallerHandlers) =>
          LET h == ret'.arg
              others(handlers) == SelectSeq(handlers, LAMBDA g : g # h)
          IN IF ret'.out.again
             THEN errorHandlers' = errorHandlers
             ELSE /\ Len(errorHandlers') = Len(errorHandlers) - 1
                  /\ others(errorHandlers') = others(errorHandlers)
      ]_vars

\* C25: while ErrorNotification stays mounted, an error of type auth delivered to it
\* leaves the displayed list as it is; any other delivered error is appended to the
\* list, once per delivery, with a timer exactly when autoHideDuration > 0; a displayed
\* error leaves the list only by handleDismiss of its id or by its own timer; and such
\* a removal gives the list without that one error, the others in their places.
C25_DisplayedErrors ==
    [][ (autoHideDuration # Null /\ autoHideDuration' = autoHideDuration) =>
          LET ids(list) == { list[i].id : i \in 1..Len(list) }
              removal == ret'.op \in { "dismiss", "autoHide" }
          IN /\ ret'.op = "rejected" =>
                  LET apiError == ret'.out.error
                      n == Len(SelectSeq(ret'.out.calls,
                                         LAMBDA c : c.handler = "ErrorNotification"))
                  IN IF apiError.type = "auth"
                     THEN errors' = errors
                     ELSE /\ Len(errors') = Len(errors) + n
                          /\ SubSeq(errors', 1, Len(errors)) = errors
                          /\ Cardinality(ids(errors')) = Len(errors')
                          /\ \A i \in (Len(errors) + 1)..Len(errors') :
                                /\ errors'[i].type = apiError.type
                                /\ errors'[i].message = apiError.message
                                /\ errors'[i].timer = (autoHideDuration[1] > 0)
             /\ \A i \in 1..Len(errors) :
                  errors[i].id \notin ids(errors') =>
                    /\ removal
                    /\ ret'.out.id = errors[i].id
                    /\ ret'.op = "autoHide" => errors[i].timer
             /\ removal =>
                  /\ ret'.out.id \in ids(errors)
                  /\ Len(errors') = Len(errors) - 1
                  /\ errors' = SelectSeq(errors, LAMBDA e : e.id # ret'.out.id)
             /\ ~ removal /\ ret'.op # "rejected" => errors' = errors
      ]_vars

C25_Witness ==
    /\ ret.op = "rejected"
    /\ ret.out.error.type = "auth"
    /\ autoHideDuration # Null
    /\ \E i \in 1..Len(ret.out.calls) : ret.out.calls[i].handler = "ErrorNotification"
    /\ Len(errors) = 1
    /\ errors[1].type # "auth"

====
